---- MODULE Spec2Model ----
(***************************************************************************)
(* EmailSentinel (src/main.py): the token-bucket RateLimiter, the SMTP     *)
(* probe (smtp_client, verify_smtp, is_catch_all, check_smtp_connection)   *)
(* and the per-address engine (process_email), as a state machine.         *)
(*                                                                         *)
(* Tokens are real-valued in the code.  Here one token is Scale units and  *)
(* time advances in ticks; `rate` is the number of units credited per tick *)
(* of elapsed time.  The code reads the clock only as the difference       *)
(* monotonic() - self.last_refill, so the model keeps that difference      *)
(* (since_refill) instead of the two absolute readings; it saturates at    *)
(* MaxSince, beyond which min(capacity, ...) gives a full bucket anyway.   *)
(*                                                                         *)
(* Coroutines are the elements of Tasks.  A coroutine's steps are split at *)
(* the awaits of the source, which is at least as fine as the event loop's *)
(* real interleaving.                                                      *)
(***************************************************************************)
EXTENDS Integers, Sequences, FiniteSets, TLC

\* ------------------------------------------------------------------ bounds
NTasks == 2
MaxCap == 2
MaxRate == 2
MaxMx == 2
MaxClock == 6
MaxN == 4

\* Units per token: the fastest rate, MaxRate units per tick, is one token
\* per tick and the slower ones are fractions of it.
Scale == MaxRate

Tasks == 1..NTasks
NoTask == 0

\* -------------------------------------------------------------- data
Hosts == {"mx1", "mx2"}
Msgs == {"m1", "m2"}
\* RCPT reply codes: the ones verify_smtp names, and neighbours of each class.
Codes == {250, 251, 421, 450, 451, 452, 550, 551, 552, 553, 554}
\* Exceptions a host attempt can raise: one under aiosmtplib.SMTPException,
\* one outside it.
Excs == {"SMTPException", "OSError"}
\* mx_records: every list of at most MaxMx hosts.
MxLists == UNION {[1..n -> Hosts] : n \in 0..MaxMx}

\* Sample addresses.  Strings are opaque here, so what EMAIL_REGEX (line 51),
\* rsplit("@", 1) and lower() (lines 181-182) give for each is tabulated.
Addresses == {"user@gmail.com", "bob@example.org", "x@mailinator.com",
              "Admin@Example.org", "support@MAILINATOR.COM", "not-an-address"}
\* A record body that is not a str, as a JSON event can carry one.
NotAString == "123 (int)"
ProbeAddress == "user@gmail.com"
\* f"fakeuser{os.urandom(4).hex()}@{domain}" (line 159)
FakeAddress == "fakeuser<random>@gmail.com"

NoReason == [text |-> "", code |-> 0, msg |-> "", host |-> "", exc |-> ""]
Text(s) == [NoReason EXCEPT !.text = s]
NoResult == [email |-> "", status |-> "none", reason |-> NoReason]
NoLast == [kind |-> "none", at |-> 0, host |-> "", code |-> 0, msg |-> "", exc |-> "",
           quit |-> "none"]
NoItem == [email |-> "", status |-> "none", reason |-> NoReason, extra |-> ""]

Min(a, b) == IF a < b THEN a ELSE b
Max(a, b) == IF a > b THEN a ELSE b
\* ceil(a / b) for a >= 0, b > 0
CeilDiv(a, b) == (a + b - 1) \div b

VARIABLES
    rate,          \* RateLimiter.rate      (units per tick)
    capacity,      \* RateLimiter.capacity  (whole tokens)
    tokens,        \* RateLimiter.tokens    (units; Scale units = 1 token)
    since_refill,  \* monotonic() - RateLimiter.last_refill  (ticks)
    lock,          \* RateLimiter.lock: the task holding it, or NoTask
    pc,            \* per task: where the coroutine stands
    op,            \* per task: the operation it runs
    sleep_left,    \* per task: ticks left of asyncio.sleep(wait_time)
    wait_time,     \* per task: the wait_time of its last sleep (ticks)
    slept,         \* per task: the current acquire() has suspended in the loop
    acquired,      \* per task: acquire() calls completed in the current operation
    completed,     \* acquire() calls completed since construction (saturating)
    refilled,      \* some _refill() has credited tokens since construction
    failed,        \* per task: the exception its acquire() ended with, or "none"
    email,         \* per task: the address argument of the operation
    mx,            \* per task: mx_records (verify_smtp, is_catch_all, process_email)
    idx,           \* per task: position of the `for mx in mx_records` loop
    result,        \* per task: the `result` dict (status, reason)
    last,          \* per task: what the most recent host attempt ended with
    tried,         \* per task: hosts a connection was opened to, in order
    quits,         \* per task: client.quit() calls attempted
    store,         \* the DynamoDB table: the set of its items
    calls,         \* per task: the DNS and table calls process_email made, in order
    emails,        \* lambda_handler: the bodies of event["Records"], in order
    batch_size,    \* Config.batch_size
    cursor,        \* process_emails: the loop variable i of line 240
    results,       \* process_emails: the list `results`
    chunks,        \* process_emails: iterations of the loop of line 240 begun
    rpc,           \* lambda_handler: where the handler stands
    envelope,      \* lambda_handler: the response it returned
    finished,      \* asyncio.gather: its children in the order they completed
    observing,     \* whether clock and total are being kept
    clock,         \* ticks since the RateLimiter was constructed
    total          \* acquire() calls completed since then

limiterVars == <<rate, capacity, tokens, since_refill, lock, sleep_left,
                 wait_time, slept, acquired, completed, refilled, failed>>
workVars == <<email, mx, idx, result, last, tried, quits, store>>
batchVars == <<emails, batch_size, cursor, results, chunks, rpc, envelope,
               finished>>
obsVars == <<observing, clock, total>>
vars == <<limiterVars, pc, op, workVars, calls, batchVars, obsVars>>

\* ------------------------------------------------------- RateLimiter.__init__
\* RateLimiterInit with a fault: the bucket starts empty.
RateLimiterInitEmpty(r, c) ==
    /\ rate = r
    /\ capacity = c
    /\ tokens = 0
    /\ since_refill = 0
    /\ lock = NoTask

\* self.tokens = capacity; self.last_refill = monotonic(); self.lock = Lock()
RateLimiterInit(r, c) ==
    /\ rate = r
    /\ capacity = c
    /\ tokens = c * Scale
    /\ since_refill = 0
    /\ lock = NoTask

\* No handler is running.
NoEnvelope == [statusCode |-> 0, message |-> "", results |-> <<>>]
RunnerIdle ==
    /\ emails = <<>>
    /\ batch_size = 0
    /\ cursor = 0
    /\ results = <<>>
    /\ chunks = 0
    /\ rpc = "none"
    /\ envelope = NoEnvelope
    /\ finished = <<>>

\* Time and completions since construction are not kept.
Unobserved ==
    /\ observing = FALSE
    /\ clock = 0
    /\ total = 0

TasksInit ==
    /\ pc = [t \in Tasks |-> "idle"]
    /\ op = [t \in Tasks |-> "none"]
    /\ sleep_left = [t \in Tasks |-> 0]
    /\ wait_time = [t \in Tasks |-> 0]
    /\ slept = [t \in Tasks |-> FALSE]
    /\ acquired = [t \in Tasks |-> 0]
    /\ failed = [t \in Tasks |-> "none"]
    /\ completed = 0
    /\ refilled = FALSE
    /\ email = [t \in Tasks |-> ""]
    /\ mx = [t \in Tasks |-> <<>>]
    /\ idx = [t \in Tasks |-> 0]
    /\ result = [t \in Tasks |-> NoResult]
    /\ last = [t \in Tasks |-> NoLast]
    /\ tried = [t \in Tasks |-> <<>>]
    /\ quits = [t \in Tasks |-> 0]
    /\ calls = [t \in Tasks |-> <<>>]

\* ---------------------------------------------------------- RateLimiter._refill
\* The elapsed time from which _refill gives a full bucket whatever tokens
\* holds (with rate = 0 it credits nothing whatever the time): since_refill
\* need not count further.
MaxSince == IF rate > 0 THEN CeilDiv(capacity * Scale, rate) ELSE 0
\* completed counts up to capacity + 1 and stays there.
MaxCount == capacity + 1

\* Refilled with a fault: the min(capacity, ...) is forgotten.
RefilledUncapped(tok, elapsed) == tok + elapsed * rate

\* new_tokens = elapsed * rate; tokens = min(capacity, tokens + new_tokens)
Refilled(tok, elapsed) == Min(capacity * Scale, tok + elapsed * rate)

\* ---------------------------------------------------------- RateLimiter.acquire
\* LockFree with a fault: acquire() does not wait for the lock.
LockIgnored(t) == TRUE

\* `async with self.lock`: entry.  Whether the lock is free is the guard.
LockFree(t) == lock = NoTask

\* The loop test of line 66: `while self.tokens < 1`.
MustWait(tok) == tok < Scale

\* wait_time = (1 - tokens) / rate, as whole ticks: asyncio.sleep returns no
\* earlier than the delay asked for.
WaitTicks(tok) == CeilDiv(Scale - tok, rate)

\* self.tokens -= 1
Debited(tok) == tok - Scale

\* Line 64: the task enters the critical section.
AcquireLock(t) ==
    /\ pc[t] = "lock"
    /\ LockFree(t)
    /\ lock' = t
    /\ pc' = [pc EXCEPT ![t] = "refill"]
    /\ UNCHANGED <<rate, capacity, tokens, since_refill, sleep_left, wait_time,
                   slept, acquired, completed, refilled, failed, op>>
    /\ UNCHANGED workVars
    /\ UNCHANGED <<calls, batchVars, obsVars>>

\* Stamped with a fault: last_refill is left as it was.
StampKept(elapsed) == elapsed

\* Line 78: self.last_refill = now; the time since the last refill after it.
Stamped(elapsed) == 0

\* Lines 65 and 70: await self._refill().
Refill(t) ==
    /\ pc[t] = "refill"
    /\ tokens' = Refilled(tokens, since_refill)
    /\ since_refill' = Stamped(since_refill)
    /\ refilled' = (refilled \/ tokens' > tokens)
    /\ pc' = [pc EXCEPT ![t] = "test"]
    /\ UNCHANGED <<rate, capacity, lock, sleep_left, wait_time, slept, acquired,
                   completed, failed, op>>
    /\ UNCHANGED workVars
    /\ UNCHANGED <<calls, batchVars, obsVars>>

\* Lines 66-69: tokens < 1, so compute wait_time and suspend in asyncio.sleep.
Sleep(t) ==
    /\ pc[t] = "test"
    /\ MustWait(tokens)
    /\ rate > 0
    /\ sleep_left' = [sleep_left EXCEPT ![t] = WaitTicks(tokens)]
    /\ wait_time' = [wait_time EXCEPT ![t] = WaitTicks(tokens)]
    /\ slept' = [slept EXCEPT ![t] = TRUE]
    /\ pc' = [pc EXCEPT ![t] = "sleep"]
    /\ UNCHANGED <<rate, capacity, tokens, since_refill, lock, acquired,
                   completed, refilled, failed, op>>
    /\ UNCHANGED workVars
    /\ UNCHANGED <<calls, batchVars, obsVars>>

\* asyncio.sleep returns: on to the _refill() of line 70.
Wake(t) ==
    /\ pc[t] = "sleep"
    /\ sleep_left[t] = 0
    /\ wait_time' = [wait_time EXCEPT ![t] = 0]
    /\ pc' = [pc EXCEPT ![t] = "refill"]
    /\ UNCHANGED <<rate, capacity, tokens, since_refill, lock, sleep_left, slept,
                   acquired, completed, refilled, failed, op>>
    /\ UNCHANGED workVars
    /\ UNCHANGED <<calls, batchVars, obsVars>>

\* Line 66 false: leave the loop.
LoopExit(t) ==
    /\ pc[t] = "test"
    /\ ~MustWait(tokens)
    /\ pc' = [pc EXCEPT ![t] = "debit"]
    /\ UNCHANGED <<limiterVars, op>>
    /\ UNCHANGED workVars
    /\ UNCHANGED <<calls, batchVars, obsVars>>

\* Where acquire() returns to: its caller is smtp_client (line 100), or the
\* task called it directly.
AfterAcquire(t) == IF op[t] = "acquire" THEN "done" ELSE "connect"

\* Line 71 and the exit of `async with`: debit one token, release the lock.
Debit(t) ==
    /\ pc[t] = "debit"
    /\ tokens' = Debited(tokens)
    /\ lock' = IF lock = t THEN NoTask ELSE lock
    /\ acquired' = [acquired EXCEPT ![t] = @ + 1]
    /\ completed' = Min(completed + 1, MaxCount)
    /\ pc' = [pc EXCEPT ![t] = AfterAcquire(t)]
    /\ UNCHANGED <<rate, capacity, since_refill, sleep_left, wait_time, slept,
                   refilled, failed, op>>
    /\ total' = IF observing THEN total + 1 ELSE total
    /\ UNCHANGED workVars
    /\ UNCHANGED <<calls, batchVars, observing, clock>>

\* Time passes: one tick for the clock and for every pending sleep.  Where
\* the time since construction is kept, it is followed up to MaxClock.
Tick ==
    /\ observing => clock < MaxClock
    /\ clock' = IF observing THEN clock + 1 ELSE clock
    /\ since_refill' = Min(since_refill + 1, MaxSince)
    /\ sleep_left' = [t \in Tasks |-> Max(sleep_left[t] - 1, 0)]
    /\ UNCHANGED <<rate, capacity, tokens, lock, wait_time, slept, acquired,
                   completed, refilled, failed, pc, op>>
    /\ UNCHANGED workVars
    /\ UNCHANGED <<calls, batchVars, observing, total>>

\* A task calls rate_limiter.acquire() directly.
CallAcquire(t) ==
    /\ pc[t] = "idle"
    /\ op' = [op EXCEPT ![t] = "acquire"]
    /\ pc' = [pc EXCEPT ![t] = "lock"]
    /\ slept' = [slept EXCEPT ![t] = FALSE]
    /\ acquired' = [acquired EXCEPT ![t] = 0]
    /\ UNCHANGED <<rate, capacity, tokens, since_refill, lock, sleep_left,
                   wait_time, completed, refilled, failed>>
    /\ UNCHANGED workVars
    /\ UNCHANGED <<calls, batchVars, obsVars>>

\* The call has returned to the task, which may call again.
ReturnAcquire(t) ==
    /\ pc[t] = "done"
    /\ op[t] = "acquire"
    /\ pc' = [pc EXCEPT ![t] = "idle"]
    /\ op' = [op EXCEPT ![t] = "none"]
    /\ UNCHANGED limiterVars
    /\ UNCHANGED workVars
    /\ UNCHANGED <<calls, batchVars, obsVars>>

AcquireStep(t) ==
    \/ AcquireLock(t)
    \/ Refill(t)
    \/ Sleep(t)
    \/ Wake(t)
    \/ LoopExit(t)
    \/ Debit(t)

\* ------------------------------------------------ EmailVerifier.verify_smtp
\* HostAt with a fault: the list is walked from its end.
HostAtReversed(m, i) == m[Len(m) + 1 - i]

\* `for mx in mx_records`: the host of the i-th iteration.
HostAt(m, i) == m[i]

\* Classify with a fault: 554 is taken for a permanent rejection and 552 is not.
ClassifyShifted(res, code, msg) ==
    IF code = 250
    THEN [return |-> TRUE,
          result |-> [res EXCEPT !.status = "valid", !.reason = Text("Mailbox exists")]]
    ELSE IF code \in {550, 551, 553, 554}
    THEN [return |-> TRUE,
          result |-> [res EXCEPT !.status = "invalid",
                        !.reason = [Text("Mailbox rejected: ") EXCEPT !.msg = msg]]]
    ELSE IF code \in {421, 451, 452}
    THEN [return |-> TRUE,
          result |-> [res EXCEPT !.status = "retry_later",
                        !.reason = [Text("Temporary failure: ") EXCEPT !.msg = msg]]]
    ELSE [return |-> FALSE,
          result |-> [res EXCEPT !.reason =
                        [Text("Unexpected SMTP code: ") EXCEPT !.code = code, !.msg = msg]]]

\* Lines 143-150: the branch taken on (code, message), whether it returns,
\* and the result dict it returns or leaves behind.
Classify(res, code, msg) ==
    IF code = 250
    THEN [return |-> TRUE,
          result |-> [res EXCEPT !.status = "valid", !.reason = Text("Mailbox exists")]]
    ELSE IF code \in {550, 551, 552, 553}
    THEN [return |-> TRUE,
          result |-> [res EXCEPT !.status = "invalid",
                        !.reason = [Text("Mailbox rejected: ") EXCEPT !.msg = msg]]]
    ELSE IF code \in {421, 451, 452}
    THEN [return |-> TRUE,
          result |-> [res EXCEPT !.status = "retry_later",
                        !.reason = [Text("Temporary failure: ") EXCEPT !.msg = msg]]]
    ELSE [return |-> FALSE,
          result |-> [res EXCEPT !.reason =
                        [Text("Unexpected SMTP code: ") EXCEPT !.code = code, !.msg = msg]]]

\* Handled with a fault: a reason already recorded is kept.
HandledKeepFirst(res, host, exc) ==
    IF res.reason # NoReason THEN res
    ELSE [res EXCEPT !.reason =
            IF exc = "SMTPException"
            THEN [Text("SMTP error with ") EXCEPT !.host = host, !.exc = exc]
            ELSE [Text("Connection error with ") EXCEPT !.host = host, !.exc = exc]]

\* Lines 151-154: the two except clauses.
Handled(res, host, exc) ==
    [res EXCEPT !.reason =
        IF exc = "SMTPException"
        THEN [Text("SMTP error with ") EXCEPT !.host = host, !.exc = exc]
        ELSE [Text("Connection error with ") EXCEPT !.host = host, !.exc = exc]]

\* How client.quit() of line 107 can end.
QuitOutcomes == {"ok", "raised"}

\* AfterQuit with a fault: the exception of quit() leaves smtp_client.
AfterQuitPropagates(q, next) == IF q = "raised" THEN "raised" ELSE next

\* Lines 105-109: quit() is attempted in the finally clause, and whatever it
\* raises is dropped by the bare except; the caller goes on as it would.
AfterQuit(q, next) == next

\* What a call leaves of the previous one.
Fresh(t) ==
    /\ slept' = [slept EXCEPT ![t] = FALSE]
    /\ acquired' = [acquired EXCEPT ![t] = 0]
    /\ last' = [last EXCEPT ![t] = NoLast]
    /\ tried' = [tried EXCEPT ![t] = <<>>]
    /\ quits' = [quits EXCEPT ![t] = 0]
    /\ calls' = [calls EXCEPT ![t] = <<>>]

\* verify_smtp(email, mx_records), line 135.
CallVerifySmtp(t) ==
    /\ pc[t] = "idle"
    /\ \E m \in MxLists :
        /\ mx' = [mx EXCEPT ![t] = m]
        /\ email' = [email EXCEPT ![t] = ProbeAddress]
        /\ result' = [result EXCEPT ![t] =
                        [email |-> ProbeAddress, status |-> "undeliverable",
                         reason |-> NoReason]]
    /\ op' = [op EXCEPT ![t] = "verify_smtp"]
    /\ idx' = [idx EXCEPT ![t] = 1]
    /\ pc' = [pc EXCEPT ![t] = "loop"]
    /\ Fresh(t)
    /\ UNCHANGED <<rate, capacity, tokens, since_refill, lock, sleep_left,
                   wait_time, completed, refilled, failed, store>>
    /\ UNCHANGED <<batchVars, obsVars>>

\* is_catch_all(domain, mx_records), lines 159-160.
CallIsCatchAll(t) ==
    /\ pc[t] = "idle"
    /\ \E m \in MxLists : mx' = [mx EXCEPT ![t] = m]
    /\ email' = [email EXCEPT ![t] = FakeAddress]
    /\ result' = [result EXCEPT ![t] = NoResult]
    /\ op' = [op EXCEPT ![t] = "is_catch_all"]
    /\ idx' = [idx EXCEPT ![t] = 1]
    /\ pc' = [pc EXCEPT ![t] = "loop"]
    /\ Fresh(t)
    /\ UNCHANGED <<rate, capacity, tokens, since_refill, lock, sleep_left,
                   wait_time, completed, refilled, failed, store>>
    /\ UNCHANGED <<batchVars, obsVars>>

\* Lines 136/138 and 161/163: the next host, entering smtp_client, whose
\* first statement is `await self.rate_limiter.acquire()` (line 100).  The
\* client of the previous host is gone, and how its quit() ended with it.
EnterSmtpClient(t) ==
    /\ pc[t] = "loop"
    /\ idx[t] <= Len(mx[t])
    /\ pc' = [pc EXCEPT ![t] = "lock"]
    /\ slept' = [slept EXCEPT ![t] = FALSE]
    /\ last' = [last EXCEPT ![t].quit = "none"]
    /\ UNCHANGED <<rate, capacity, tokens, since_refill, lock, sleep_left,
                   wait_time, acquired, completed, refilled, failed, op>>
    /\ UNCHANGED <<email, mx, idx, result, tried, quits, store>>
    /\ UNCHANGED <<calls, batchVars, obsVars>>

\* Lines 155-156 and 172: the list is exhausted.
LoopExhausted(t) ==
    /\ pc[t] = "loop"
    /\ idx[t] > Len(mx[t])
    /\ result' = [result EXCEPT ![t] =
                    IF op[t] = "is_catch_all"
                    THEN [email |-> email[t], status |-> "False", reason |-> NoReason]
                    ELSE @]
    /\ pc' = [pc EXCEPT ![t] = "done"]
    /\ UNCHANGED <<limiterVars, op, email, mx, idx, last, tried, quits, store>>
    /\ UNCHANGED <<calls, batchVars, obsVars>>

\* Lines 101-109 when client.connect() raises: quit() is attempted in the
\* finally, and the exception reaches the caller's except clauses.
ConnectFails(t) ==
    /\ pc[t] = "connect"
    /\ \E x \in Excs, q \in QuitOutcomes :
        /\ last' = [last EXCEPT ![t] =
                      [NoLast EXCEPT !.kind = "connect_failed", !.at = idx[t],
                                     !.host = HostAt(mx[t], idx[t]), !.exc = x,
                                     !.quit = q]]
        /\ pc' = [pc EXCEPT ![t] = AfterQuit(q, "loop")]
        /\ result' = [result EXCEPT ![t] =
                        IF op[t] = "verify_smtp"
                        THEN Handled(@, HostAt(mx[t], idx[t]), x) ELSE @]
    /\ tried' = [tried EXCEPT ![t] = Append(@, HostAt(mx[t], idx[t]))]
    /\ quits' = [quits EXCEPT ![t] = @ + 1]
    /\ idx' = [idx EXCEPT ![t] = @ + 1]
    /\ UNCHANGED <<limiterVars, op, email, mx, store>>
    /\ UNCHANGED <<calls, batchVars, obsVars>>

\* Lines 101-104: client.connect() succeeds and the client is yielded.
ConnectOk(t) ==
    /\ pc[t] = "connect"
    /\ tried' = [tried EXCEPT ![t] = Append(@, HostAt(mx[t], idx[t]))]
    /\ pc' = [pc EXCEPT ![t] = "session"]
    /\ UNCHANGED <<limiterVars, op, email, mx, idx, result, last, quits, store>>
    /\ UNCHANGED <<calls, batchVars, obsVars>>

\* Lines 139-141 (164-166) when ehlo, mail or rcpt raises; quit() in the
\* finally of smtp_client, then the except clauses.
SessionRaises(t) ==
    /\ pc[t] = "session"
    /\ \E x \in Excs, q \in QuitOutcomes :
        /\ last' = [last EXCEPT ![t] =
                      [NoLast EXCEPT !.kind = "session_failed", !.at = idx[t],
                                     !.host = HostAt(mx[t], idx[t]), !.exc = x,
                                     !.quit = q]]
        /\ pc' = [pc EXCEPT ![t] = AfterQuit(q, "loop")]
        /\ result' = [result EXCEPT ![t] =
                        IF op[t] = "verify_smtp"
                        THEN Handled(@, HostAt(mx[t], idx[t]), x) ELSE @]
    /\ quits' = [quits EXCEPT ![t] = @ + 1]
    /\ idx' = [idx EXCEPT ![t] = @ + 1]
    /\ UNCHANGED <<limiterVars, op, email, mx, tried, store>>
    /\ UNCHANGED <<calls, batchVars, obsVars>>

\* Lines 141-150 of verify_smtp: rcpt answers (code, message).
VerifyRcpt(t) ==
    /\ pc[t] = "session"
    /\ op[t] = "verify_smtp"
    /\ \E c \in Codes, m \in Msgs, q \in QuitOutcomes :
        LET cl == Classify(result[t], c, m) IN
        /\ last' = [last EXCEPT ![t] =
                      [NoLast EXCEPT !.kind = "code", !.at = idx[t],
                                     !.host = HostAt(mx[t], idx[t]),
                                     !.code = c, !.msg = m, !.quit = q]]
        /\ result' = [result EXCEPT ![t] = cl.result]
        /\ idx' = [idx EXCEPT ![t] = IF cl.return THEN @ ELSE @ + 1]
        /\ pc' = [pc EXCEPT ![t] =
                    AfterQuit(q, IF cl.return THEN "done" ELSE "loop")]
    /\ quits' = [quits EXCEPT ![t] = @ + 1]
    /\ UNCHANGED <<limiterVars, op, email, mx, tried, store>>
    /\ UNCHANGED <<calls, batchVars, obsVars>>

\* Lines 166-169 of is_catch_all: True on 250, the next host otherwise.
CatchAllRcpt(t) ==
    /\ pc[t] = "session"
    /\ op[t] = "is_catch_all"
    /\ \E c \in Codes, q \in QuitOutcomes :
        /\ last' = [last EXCEPT ![t] =
                      [NoLast EXCEPT !.kind = "code", !.at = idx[t],
                                     !.host = HostAt(mx[t], idx[t]),
                                     !.code = c, !.quit = q]]
        /\ result' = [result EXCEPT ![t] =
                        IF c = 250
                        THEN [email |-> email[t], status |-> "True", reason |-> NoReason]
                        ELSE @]
        /\ idx' = [idx EXCEPT ![t] = IF c = 250 THEN @ ELSE @ + 1]
        /\ pc' = [pc EXCEPT ![t] = AfterQuit(q, IF c = 250 THEN "done" ELSE "loop")]
    /\ quits' = [quits EXCEPT ![t] = @ + 1]
    /\ UNCHANGED <<limiterVars, op, email, mx, tried, store>>
    /\ UNCHANGED <<calls, batchVars, obsVars>>

\* ------------------------------------- EmailVerifier.check_smtp_connection
\* check_smtp_connection(mx_host): entry.
CallCheckSmtpConnection(t) ==
    /\ pc[t] = "idle"
    /\ \E h \in Hosts : mx' = [mx EXCEPT ![t] = <<h>>]
    /\ email' = [email EXCEPT ![t] = ""]
    /\ result' = [result EXCEPT ![t] = NoResult]
    /\ op' = [op EXCEPT ![t] = "check_smtp_connection"]
    /\ idx' = [idx EXCEPT ![t] = 1]
    /\ pc' = [pc EXCEPT ![t] = "socket"]
    /\ Fresh(t)
    /\ UNCHANGED <<rate, capacity, tokens, since_refill, lock, sleep_left,
                   wait_time, completed, refilled, failed, store>>
    /\ UNCHANGED <<batchVars, obsVars>>

\* Lines 126-132: socket.create_connection((mx_host, 25)), True or False.
SocketConnect(t) ==
    /\ pc[t] = "socket"
    /\ tried' = [tried EXCEPT ![t] = Append(@, HostAt(mx[t], idx[t]))]
    /\ \E ok \in BOOLEAN :
        result' = [result EXCEPT ![t] =
                     [email |-> "", status |-> IF ok THEN "True" ELSE "False",
                      reason |-> NoReason]]
    /\ pc' = [pc EXCEPT ![t] = "done"]
    /\ UNCHANGED <<limiterVars, op, email, mx, idx, last, quits, store>>
    /\ UNCHANGED <<calls, batchVars, obsVars>>

\* The operation has returned to the task, which may call again.
ReturnOp(t) ==
    /\ pc[t] = "done"
    /\ op[t] # "acquire"
    /\ pc' = [pc EXCEPT ![t] = "idle"]
    /\ op' = [op EXCEPT ![t] = "none"]
    /\ email' = [email EXCEPT ![t] = ""]
    /\ mx' = [mx EXCEPT ![t] = <<>>]
    /\ idx' = [idx EXCEPT ![t] = 0]
    /\ result' = [result EXCEPT ![t] = NoResult]
    /\ Fresh(t)
    /\ UNCHANGED <<rate, capacity, tokens, since_refill, lock, sleep_left,
                   wait_time, completed, refilled, failed, store>>
    /\ UNCHANGED <<batchVars, obsVars>>

ProbeStep(t) ==
    \/ EnterSmtpClient(t)
    \/ LoopExhausted(t)
    \/ ConnectFails(t)
    \/ ConnectOk(t)
    \/ SessionRaises(t)
    \/ VerifyRcpt(t)
    \/ CatchAllRcpt(t)
    \/ SocketConnect(t)

\* ---------------------------------------------- EmailVerifier.process_email
\* Line 45.
DISPOSABLE_EMAIL_DOMAINS ==
    {"mailinator.com", "guerrillamail.com", "tempmail.com", "10minutemail.com"}
\* Line 49.
ROLE_BASED_EMAILS == {"admin", "support", "info", "noreply", "sales", "contact"}

\* Lines 93-96: bool(EMAIL_REGEX.match(email)), tabulated for Addresses.
validate_syntax(e) ==
    e \in {"user@gmail.com", "bob@example.org", "x@mailinator.com",
           "Admin@Example.org", "support@MAILINATOR.COM"}

\* Lines 181-182: email.rsplit("@", 1)[0].lower(), tabulated for Addresses.
LocalPart(e) ==
    CASE e = "user@gmail.com" -> "user"
      [] e = "bob@example.org" -> "bob"
      [] e = "x@mailinator.com" -> "x"
      [] e = "Admin@Example.org" -> "admin"
      [] e = "support@MAILINATOR.COM" -> "support"
      [] OTHER -> e

\* Lines 181-182: email.rsplit("@", 1)[1].lower(), tabulated for Addresses.
DomainPart(e) ==
    CASE e = "user@gmail.com" -> "gmail.com"
      [] e = "bob@example.org" -> "example.org"
      [] e = "x@mailinator.com" -> "mailinator.com"
      [] e = "Admin@Example.org" -> "example.org"
      [] e = "support@MAILINATOR.COM" -> "mailinator.com"
      [] OTHER -> ""

\* Heuristic with a fault: the role-based stage is tried before the
\* disposable one.
HeuristicRoleFirst(e) ==
    IF ~validate_syntax(e)
    THEN [email |-> e, status |-> "invalid", reason |-> Text("Invalid syntax")]
    ELSE IF LocalPart(e) \in ROLE_BASED_EMAILS
    THEN [email |-> e, status |-> "caution", reason |-> Text("Role-based email")]
    ELSE IF DomainPart(e) \in DISPOSABLE_EMAIL_DOMAINS
    THEN [email |-> e, status |-> "invalid", reason |-> Text("Disposable email")]
    ELSE NoResult

\* Lines 176-193: the result of the first heuristic stage that matches, or
\* NoResult when none does.
Heuristic(e) ==
    IF ~validate_syntax(e)
    THEN [email |-> e, status |-> "invalid", reason |-> Text("Invalid syntax")]
    ELSE IF DomainPart(e) \in DISPOSABLE_EMAIL_DOMAINS
    THEN [email |-> e, status |-> "invalid", reason |-> Text("Disposable email")]
    ELSE IF LocalPart(e) \in ROLE_BASED_EMAILS
    THEN [email |-> e, status |-> "caution", reason |-> Text("Role-based email")]
    ELSE NoResult

\* What resolver.resolve(domain, "MX") can end with: an answer (never empty:
\* an empty one is NoAnswer), here already in preference order, or an exception.
DnsOutcomes ==
    {[kind |-> "answer", records |-> m] : m \in MxLists \ {<<>>}}
    \cup {[kind |-> k, records |-> <<>>] :
             k \in {"NXDOMAIN", "NoAnswer", "Timeout", "NoNameservers"}}

\* get_mx_records with a fault: an error other than NXDOMAIN and NoAnswer
\* falls back to a host.
get_mx_recordsFallback(out) ==
    IF out.kind = "answer" THEN out.records
    ELSE IF out.kind \in {"NXDOMAIN", "NoAnswer"} THEN <<>>
    ELSE <<"mx1">>

\* Lines 111-122.
get_mx_records(out) == IF out.kind = "answer" THEN out.records ELSE <<>>

\* Lines 196-201: the result once the MX list is known.
MxResult(e, m) ==
    IF m = <<>>
    THEN [email |-> e, status |-> "invalid", reason |-> Text("No MX records found")]
    ELSE [email |-> e, status |-> "valid", reason |-> Text("MX records found")]

\* The table as DynamoDB keeps it: a set of items, of which the attribute
\* "email" is the key (lines 207, 213); `extra` stands for every attribute of
\* an item other than email, status and reason.
Keys(table) == {i.email : i \in table}

\* Line 224: the dict `result` as an item.
ItemOf(res) ==
    [email |-> res.email, status |-> res.status, reason |-> res.reason,
     extra |-> "none"]

\* table.get_item(Key={"email": key}) (line 207): the item of that key, or
\* NoItem for a response without "Item".
get_item(table, key) ==
    IF key \in Keys(table) THEN CHOOSE i \in table : i.email = key ELSE NoItem

\* update_item with a fault: the item is written anew from the result.
update_itemReplace(table, key, status, reason) ==
    {i \in table : i.email # key}
        \cup {[email |-> key, status |-> status, reason |-> reason, extra |-> "none"]}

\* table.update_item(Key, "SET #s = :status, #r = :reason") (lines 211-221):
\* the two attributes of the item of that key are set; DynamoDB creates the
\* item when the key is absent.
update_item(table, key, status, reason) ==
    IF key \in Keys(table)
    THEN {IF i.email = key THEN [i EXCEPT !.status = status, !.reason = reason]
                           ELSE i : i \in table}
    ELSE table \cup {[email |-> key, status |-> status, reason |-> reason,
                      extra |-> "none"]}

\* table.put_item(Item=item) (line 224): the item replaces the one of its key.
put_item(table, item) == {i \in table : i.email # item.email} \cup {item}

\* The except clause of lines 226-227 with a fault: the failure leaves
\* process_email as an exception.
StoreFailurePropagates == "raised"

\* Lines 226-229: a failure of a table call is logged, and process_email
\* goes on to `return result`.
AfterStoreFailure == "done"

\* Line 94: EMAIL_REGEX.match(email) raises TypeError on an argument that is
\* not a str.
IsStr(e) == e # NotAString

\* Lines 175-195, entered with the argument e: the heuristic stages, each
\* returning at once on a match, then the call of get_mx_records.
EnterProcessEmail(t, e) ==
    /\ email' = [email EXCEPT ![t] = e]
    /\ result' = [result EXCEPT ![t] = IF IsStr(e) THEN Heuristic(e) ELSE NoResult]
    /\ pc' = [pc EXCEPT ![t] =
                IF ~IsStr(e) THEN "raised"
                ELSE IF Heuristic(e) # NoResult THEN "done" ELSE "dns"]
    /\ op' = [op EXCEPT ![t] = "process_email"]
    /\ mx' = [mx EXCEPT ![t] = <<>>]
    /\ idx' = [idx EXCEPT ![t] = 0]
    /\ Fresh(t)
    /\ UNCHANGED <<rate, capacity, tokens, since_refill, lock, sleep_left,
                   wait_time, completed, refilled, failed, store>>
    /\ UNCHANGED obsVars

\* process_email(email) called on its own, with an address.
CallProcessEmail(t) ==
    /\ pc[t] = "idle"
    /\ \E e \in Addresses : EnterProcessEmail(t, e)
    /\ UNCHANGED batchVars

\* Lines 195-201: get_mx_records returns; the result is set from the list alone.
Resolve(t) ==
    /\ pc[t] = "dns"
    /\ \E out \in DnsOutcomes :
        /\ mx' = [mx EXCEPT ![t] = get_mx_records(out)]
        /\ result' = [result EXCEPT ![t] = MxResult(email[t], get_mx_records(out))]
        /\ calls' = [calls EXCEPT ![t] = Append(@, <<"resolve", out.kind>>)]
    /\ pc' = [pc EXCEPT ![t] = "get_item"]
    /\ UNCHANGED <<limiterVars, op, email, idx, last, tried, quits, store>>
    /\ UNCHANGED <<batchVars, obsVars>>

\* Lines 207-208 and 226-227: table.get_item; a failure is logged and ends
\* the persistence attempt.
GetItem(t) ==
    /\ pc[t] = "get_item"
    /\ \E ok \in BOOLEAN :
        /\ pc' = [pc EXCEPT ![t] =
                    IF ~ok THEN AfterStoreFailure
                    ELSE IF get_item(store, email[t]) # NoItem THEN "update_item"
                    ELSE "put_item"]
        /\ calls' = [calls EXCEPT ![t] =
                       Append(@, <<"get_item", IF ok THEN "ok" ELSE "failed">>)]
    /\ UNCHANGED <<limiterVars, op, workVars>>
    /\ UNCHANGED <<batchVars, obsVars>>

\* Lines 211-221: SET status, reason on the item of this key.
UpdateItem(t) ==
    /\ pc[t] = "update_item"
    /\ \E ok \in BOOLEAN :
        /\ store' = IF ok
                    THEN update_item(store, email[t], result[t].status,
                                     result[t].reason)
                    ELSE store
        /\ pc' = [pc EXCEPT ![t] = IF ok THEN "done" ELSE AfterStoreFailure]
        /\ calls' = [calls EXCEPT ![t] =
                       Append(@, <<"update_item", IF ok THEN "ok" ELSE "failed">>)]
    /\ UNCHANGED <<limiterVars, op, email, mx, idx, result, last, tried, quits>>
    /\ UNCHANGED <<batchVars, obsVars>>

\* Line 224: put_item(Item=result).
PutItem(t) ==
    /\ pc[t] = "put_item"
    /\ \E ok \in BOOLEAN :
        /\ store' = IF ok THEN put_item(store, ItemOf(result[t])) ELSE store
        /\ pc' = [pc EXCEPT ![t] = IF ok THEN "done" ELSE AfterStoreFailure]
        /\ calls' = [calls EXCEPT ![t] =
                       Append(@, <<"put_item", IF ok THEN "ok" ELSE "failed">>)]
    /\ UNCHANGED <<limiterVars, op, email, mx, idx, result, last, tried, quits>>
    /\ UNCHANGED <<batchVars, obsVars>>

EngineStep(t) ==
    \/ Resolve(t)
    \/ GetItem(t)
    \/ UpdateItem(t)
    \/ PutItem(t)

\* ---------------------------------------------------- the verifier's methods
\* EmailVerifier.__init__ (line 87): one RateLimiter, here a bucket of one
\* token refilled at one token per tick, which makes probes wait for each
\* other; SpecLimiter below ranges over rates and capacities.
Init ==
    /\ RateLimiterInit(Scale, 1)
    /\ TasksInit
    /\ store = {}
    /\ RunnerIdle
    /\ Unobserved

\* Probes share nothing but the RateLimiter, so one task runs the
\* verifier's methods in full and the others stand for the concurrent probes
\* by what they do to the limiter: the acquire() of line 100.
Callers == {1}

\* The probe methods alone.
NextProbe ==
    \/ Tick
    \/ \E t \in Callers : CallVerifySmtp(t)
    \/ \E t \in Callers : CallIsCatchAll(t)
    \/ \E t \in Callers : CallCheckSmtpConnection(t)
    \/ \E t \in Tasks \ Callers : CallAcquire(t)
    \/ \E t \in Tasks : AcquireStep(t)
    \/ \E t \in Callers : ProbeStep(t)
    \/ \E t \in Callers : ReturnOp(t)
    \/ \E t \in Tasks \ Callers : ReturnAcquire(t)

SpecProbe == Init /\ [][NextProbe]_vars

\* Every method of the verifier.
Next ==
    \/ NextProbe
    \/ \E t \in Callers : CallProcessEmail(t)
    \/ \E t \in Callers : EngineStep(t)

Spec == Init /\ [][Next]_vars

\* ------------------------------------- process_email under concurrent callers
\* Items the table can hold before a run, each with attributes that
\* process_email does not write.
LegacyItems ==
    {[email |-> a, status |-> "valid", reason |-> Text("MX records found"),
      extra |-> "note"] : a \in {"user@gmail.com", "bob@example.org"}}

\* Two verifications at a time are what a race over one key takes (lines
\* 207-224: the read and the write are separate awaits).
Verifiers == {1, 2}

InitEngine ==
    /\ RateLimiterInit(Scale, 1)
    /\ TasksInit
    /\ store \in SUBSET LegacyItems
    /\ RunnerIdle
    /\ Unobserved

NextEngine ==
    \/ \E t \in Verifiers : CallProcessEmail(t)
    \/ \E t \in Verifiers : EngineStep(t)
    \/ \E t \in Verifiers : ReturnOp(t)

SpecEngine == InitEngine /\ [][NextEngine]_vars

\* ------------------------------------------------------------ lambda_handler
\* Values of Config.batch_size (line 35) that the tasks at hand can run.
BatchSizes == {1, 2}
\* Record bodies: an address that reaches the MX stage, one that a
\* heuristic stage returns at once, and a body that is not a str.
Bodies == {"user@gmail.com", "x@mailinator.com", NotAString}
\* [record["body"] for record in sqs_records] (line 256).
Events == UNION {[1..n -> Bodies] : n \in 0..MaxN}

\* Batch with a fault: the slice has no upper end.
BatchToEnd == SubSeq(emails, cursor + 1, Len(emails))

\* Line 241: batch = emails[i:i + CONFIG.batch_size].
Batch == SubSeq(emails, cursor + 1, Min(cursor + batch_size, Len(emails)))

\* gather with a fault: the results come in the order of completion.
gatherAsCompleted(res, order, n) == [k \in 1..n |-> res[order[k]]]

\* asyncio.gather(*aws) (line 242): the results in the order of the
\* awaitables, whatever the order in which they completed.
gather(res, order, n) == [k \in 1..n |-> res[k]]

\* Where a coroutine of process_email stands at an await.
Pending == {"spawned", "dns", "get_item", "update_item", "put_item"}

InitBatch ==
    /\ RateLimiterInit(Scale, 1)
    /\ TasksInit
    /\ store = {}
    /\ Unobserved
    /\ emails \in Events
    /\ batch_size \in BatchSizes
    /\ cursor = 0
    /\ results = <<>>
    /\ chunks = 0
    /\ rpc = "start"
    /\ envelope = NoEnvelope
    /\ finished = <<>>

\* Lines 250-262: without records the handler answers at once, otherwise it
\* runs process_emails.
Handle ==
    /\ rpc = "start"
    /\ rpc' = IF emails = <<>> THEN "returned" ELSE "loop"
    /\ envelope' = IF emails = <<>>
                   THEN [statusCode |-> 200, message |-> "No emails to process",
                         results |-> <<>>]
                   ELSE envelope
    /\ UNCHANGED <<limiterVars, pc, op, workVars, calls, obsVars>>
    /\ UNCHANGED <<emails, batch_size, cursor, results, chunks, finished>>

\* Lines 240-242: the next iteration of the loop; one coroutine of
\* process_email per address of the batch is handed to gather.
BeginChunk ==
    /\ rpc = "loop"
    /\ cursor < Len(emails)
    /\ chunks' = chunks + 1
    /\ pc' = [t \in Tasks |-> IF t <= Len(Batch) THEN "spawned" ELSE pc[t]]
    /\ op' = [t \in Tasks |-> IF t <= Len(Batch) THEN "process_email" ELSE op[t]]
    /\ email' = [t \in Tasks |-> IF t <= Len(Batch) THEN Batch[t] ELSE email[t]]
    /\ finished' = <<>>
    /\ rpc' = "gather"
    /\ UNCHANGED <<limiterVars, mx, idx, result, last, tried, quits, store,
                   calls, obsVars>>
    /\ UNCHANGED <<emails, batch_size, cursor, results, envelope>>

\* A coroutine of the batch runs up to its first await.
StartTask(t) ==
    /\ pc[t] = "spawned"
    /\ EnterProcessEmail(t, email[t])
    /\ UNCHANGED batchVars

\* gather's callback for a child that returned.
ChildDone(t) ==
    /\ rpc = "gather"
    /\ pc[t] = "done"
    /\ pc' = [pc EXCEPT ![t] = "joined"]
    /\ finished' = Append(finished, t)
    /\ mx' = [mx EXCEPT ![t] = <<>>]
    /\ calls' = [calls EXCEPT ![t] = <<>>]
    /\ UNCHANGED <<limiterVars, op, email, idx, result, last, tried, quits,
                   store, obsVars>>
    /\ UNCHANGED <<emails, batch_size, cursor, results, chunks, rpc, envelope>>

\* Lines 242-244: every child has returned; results.extend(batch_results)
\* and the loop goes on.
Gathered ==
    /\ rpc = "gather"
    /\ Len(finished) = Len(Batch)
    /\ results' = results \o gather(result, finished, Len(Batch))
    /\ cursor' = cursor + batch_size
    /\ pc' = [t \in Tasks |-> "idle"]
    /\ op' = [t \in Tasks |-> "none"]
    /\ email' = [t \in Tasks |-> ""]
    /\ result' = [t \in Tasks |-> NoResult]
    /\ rpc' = "loop"
    /\ UNCHANGED <<limiterVars, mx, idx, last, tried, quits, store, calls,
                   obsVars>>
    /\ UNCHANGED <<emails, batch_size, chunks, envelope, finished>>

\* Lines 242 and 265-267: gather is called without return_exceptions, so the
\* exception of a child leaves gather, process_emails and asyncio.run, which
\* cancels the children still pending; the handler answers 500.
GatherRaises ==
    /\ rpc = "gather"
    /\ \E t \in Tasks : pc[t] = "raised"
    /\ pc' = [t \in Tasks |-> IF pc[t] \in Pending THEN "cancelled" ELSE pc[t]]
    /\ envelope' = [statusCode |-> 500, message |-> "TypeError", results |-> <<>>]
    /\ rpc' = "returned"
    /\ UNCHANGED <<limiterVars, op, workVars, calls, obsVars>>
    /\ UNCHANGED <<emails, batch_size, cursor, results, chunks, finished>>

\* Lines 245-246 and 262-264: the loop is over; the handler answers 200
\* with the results.
Finish ==
    /\ rpc = "loop"
    /\ cursor >= Len(emails)
    /\ envelope' = [statusCode |-> 200, message |-> "Processed emails",
                    results |-> results]
    /\ rpc' = "returned"
    /\ UNCHANGED <<limiterVars, pc, op, workVars, calls, obsVars>>
    /\ UNCHANGED <<emails, batch_size, cursor, results, chunks, finished>>

NextBatch ==
    \/ Handle
    \/ BeginChunk
    \/ \E t \in Tasks : StartTask(t)
    \/ \E t \in Tasks : EngineStep(t)
    \/ \E t \in Tasks : ChildDone(t)
    \/ Gathered
    \/ GatherRaises
    \/ Finish

SpecBatch == InitBatch /\ [][NextBatch]_vars

\* ------------------------------------------ the limiter under direct callers
InitLimiter ==
    /\ \E r \in 1..MaxRate, c \in 1..MaxCap : RateLimiterInit(r, c)
    /\ TasksInit
    /\ store = {}
    /\ RunnerIdle
    /\ Unobserved

NextLimiter ==
    \/ Tick
    \/ \E t \in Tasks : CallAcquire(t)
    \/ \E t \in Tasks : AcquireStep(t)
    \/ \E t \in Tasks : ReturnAcquire(t)

SpecLimiter == InitLimiter /\ [][NextLimiter]_vars

\* ------------------------- the limiter with the time since construction kept
InitAdmission ==
    /\ \E r \in 1..MaxRate, c \in 1..MaxCap : RateLimiterInit(r, c)
    /\ TasksInit
    /\ store = {}
    /\ RunnerIdle
    /\ observing = TRUE
    /\ clock = 0
    /\ total = 0

SpecAdmission == InitAdmission /\ [][NextLimiter]_vars

\* ------------------------------- the limiter built from unvalidated Config
\* Lines 40-41 and 87: rate and capacity come from SMTP_RATE_LIMIT and
\* SMTP_BURST_CAPACITY as float(...) and int(...), with no range check.
InitCfg ==
    /\ \E r \in 0..MaxRate, c \in 0..MaxCap : RateLimiterInit(r, c)
    /\ TasksInit
    /\ store = {}
    /\ RunnerIdle
    /\ Unobserved

\* Line 67 with rate = 0: (1 - tokens) / 0 raises ZeroDivisionError, which
\* leaves `async with` (releasing the lock) and acquire().
DivideByZero(t) ==
    /\ pc[t] = "test"
    /\ MustWait(tokens)
    /\ rate = 0
    /\ failed' = [failed EXCEPT ![t] = "ZeroDivisionError"]
    /\ lock' = IF lock = t THEN NoTask ELSE lock
    /\ pc' = [pc EXCEPT ![t] = "raised"]
    /\ UNCHANGED <<rate, capacity, tokens, since_refill, sleep_left, wait_time,
                   slept, acquired, completed, refilled, op>>
    /\ UNCHANGED workVars
    /\ UNCHANGED <<calls, batchVars, obsVars>>

NextCfg ==
    \/ NextLimiter
    \/ \E t \in Tasks : DivideByZero(t)

SpecCfg == InitCfg /\ [][NextCfg]_vars

\* ------------------------------------------------------------------ claims
InCS(t) == pc[t] \in {"refill", "test", "sleep", "debit"}

\* C2: in every reachable state 0 <= tokens <= capacity, under any number of
\* concurrent acquire() callers and any passage of time between their steps.
C2_TokensInRange == 0 <= tokens /\ tokens <= capacity * Scale

\* C2 witness: the bucket has been drained to 0 by debits while another
\* caller is waiting for the lock, after time has been credited by a refill.
C2_Witness ==
    /\ tokens = 0
    /\ refilled
    /\ completed > capacity
    /\ \E t \in Tasks : pc[t] = "lock"

\* C3: refill/check/debit is one critical section: at most one caller is
\* between lock entry and lock exit, the debit happens only with tokens >= 1,
\* and each completed acquire() takes exactly one token and counts once.
C3_CriticalSection ==
    /\ [](/\ \A t \in Tasks : InCS(t) => lock = t
          /\ \A t1, t2 \in Tasks : (InCS(t1) /\ InCS(t2)) => t1 = t2
          /\ \A t \in Tasks : pc[t] = "debit" => tokens >= Scale)
    /\ [][\A t \in Tasks :
            (pc[t] = "debit" /\ pc'[t] # "debit") =>
                /\ tokens' = tokens - Scale
                /\ acquired'[t] = acquired[t] + 1
                /\ lock' = NoTask]_vars

\* C3 witness: one caller is about to debit inside the critical section
\* while another is held at the lock.
C3_Witness ==
    \E t1, t2 \in Tasks :
        /\ t1 # t2
        /\ pc[t1] = "debit"
        /\ pc[t2] = "lock"
        /\ slept[t1]

\* C4: on a fresh limiter the first C acquire() calls complete without
\* suspending in the wait loop; the (C+1)-th, reaching the loop test before
\* any token has been refilled, finds 0 tokens and so suspends, for
\* (1 - 0) / R, before it completes.
C4_BurstThenWait ==
    /\ \A t \in Tasks : slept[t] => completed >= capacity
    /\ \A t \in Tasks :
        (pc[t] = "test" /\ completed = capacity /\ ~refilled) => tokens = 0
    /\ \A t \in Tasks :
        (pc[t] = "sleep" /\ completed = capacity /\ ~refilled) =>
            wait_time[t] = CeilDiv(Scale, rate)
    /\ \A t \in Tasks :
        (pc[t] = "debit" /\ completed = capacity) => (slept[t] \/ refilled)

\* C4 witness: C = MaxCap calls have completed, nothing has been refilled and
\* the next caller is suspended in the wait loop.
C4_Witness ==
    \E t \in Tasks :
        /\ pc[t] = "sleep"
        /\ capacity = MaxCap
        /\ completed = capacity
        /\ ~refilled

\* The RCPT codes the specification calls terminal.
PermanentCodes == {550, 551, 552, 553}
TemporaryCodes == {421, 451, 452}
TerminalCodes == {250} \cup PermanentCodes \cup TemporaryCodes
Statuses == {"valid", "invalid", "caution", "retry_later", "undeliverable"}

\* C1 (as claimed): when process_email returns for an address that passed the
\* three heuristic checks and whose MX list is not empty, the SMTP probe has
\* been run on that list (a limiter acquisition and a connection to its first
\* host at least) and the result is not the bare "MX records found".
C1_ProbeInvoked ==
    \A t \in Tasks :
        (/\ pc[t] = "done"
         /\ op[t] = "process_email"
         /\ Heuristic(email[t]) = NoResult
         /\ mx[t] # <<>>) =>
            /\ acquired[t] >= 1
            /\ Len(tried[t]) >= 1
            /\ result[t].reason # Text("MX records found")

\* C6 (as claimed): every connection to a mail host is preceded by a
\* completed acquire() of its own, so a task never has opened more
\* connections than it has completed acquisitions.
C6_ConnectAfterAcquire == \A t \in Tasks : Len(tried[t]) <= acquired[t]

\* C7: verify_smtp takes the hosts in list order, one acquisition and one
\* connection each, and stops at the first terminal RCPT code: no later host
\* is acquired for or connected to, and 250 gives valid / 'Mailbox exists'.
C7_StopsAtFirstTerminal ==
    \A t \in Tasks :
        op[t] = "verify_smtp" =>
            /\ Len(tried[t]) <= Len(mx[t])
            /\ \A i \in 1..Len(tried[t]) : tried[t][i] = mx[t][i]
            /\ Len(tried[t]) <= acquired[t]
            /\ acquired[t] <= Len(tried[t]) + 1
            /\ (last[t].kind = "code" /\ last[t].code \in TerminalCodes) =>
                  /\ pc[t] = "done"
                  /\ last[t].at = Len(tried[t])
                  /\ idx[t] = Len(tried[t])
                  /\ acquired[t] = Len(tried[t])
                  /\ last[t].host = mx[t][Len(tried[t])]
            /\ (last[t].kind = "code" /\ last[t].code = 250) =>
                  /\ result[t].status = "valid"
                  /\ result[t].reason = Text("Mailbox exists")

\* C7 witness: the first of two hosts answered 250; the probe has returned
\* with the second host never tried.
C7_Witness ==
    \E t \in Tasks :
        /\ op[t] = "verify_smtp"
        /\ pc[t] = "done"
        /\ mx[t] = <<"mx1", "mx2">>
        /\ last[t].kind = "code"
        /\ last[t].code = 250
        /\ tried[t] = <<"mx1">>

\* C8: 250 gives valid; 550-553 give invalid and 421/451/452 give retry_later,
\* each with the host's message in the reason; any other code is not
\* terminal: it becomes the running reason and the probe goes on to the next
\* host.
C8_Classification ==
    \A t \in Tasks :
        (op[t] = "verify_smtp" /\ last[t].kind = "code") =>
            LET c == last[t].code
                m == last[t].msg
            IN  /\ c = 250 =>
                     /\ pc[t] = "done"
                     /\ result[t].status = "valid"
                /\ c \in PermanentCodes =>
                     /\ pc[t] = "done"
                     /\ result[t].status = "invalid"
                     /\ result[t].reason.text = "Mailbox rejected: "
                     /\ result[t].reason.msg = m
                /\ c \in TemporaryCodes =>
                     /\ pc[t] = "done"
                     /\ result[t].status = "retry_later"
                     /\ result[t].reason.text = "Temporary failure: "
                     /\ result[t].reason.msg = m
                /\ c \notin TerminalCodes =>
                     /\ result[t].status = "undeliverable"
                     /\ result[t].reason.text = "Unexpected SMTP code: "
                     /\ result[t].reason.code = c
                     /\ result[t].reason.msg = m
                     /\ idx[t] = last[t].at + 1
                     /\ pc[t] = "done" => last[t].at = Len(mx[t])

\* C8 witness: the first host answered 554, which is recorded as the running
\* reason, and the probe is at the second host.
C8_Witness ==
    \E t \in Tasks :
        /\ op[t] = "verify_smtp"
        /\ pc[t] = "connect"
        /\ idx[t] = 2
        /\ last[t].kind = "code"
        /\ last[t].code = 554

\* C9: when the list is exhausted without a terminal code the result is
\* undeliverable with the reason recorded by the last host attempted; a
\* failure to connect or a protocol error never ends the probe before the
\* last host and never leaves verify_smtp as an exception.
C9_ExhaustedUndeliverable ==
    \A t \in Tasks :
        op[t] = "verify_smtp" =>
            /\ pc[t] # "raised"
            /\ failed[t] = "none"
            /\ (pc[t] = "done" /\ ~(last[t].kind = "code" /\ last[t].code \in TerminalCodes)) =>
                  /\ result[t].status = "undeliverable"
                  /\ Len(tried[t]) = Len(mx[t])
                  /\ Len(mx[t]) > 0 =>
                        /\ last[t].at = Len(mx[t])
                        /\ last[t].host = mx[t][Len(mx[t])]
                        /\ result[t].reason.host =
                             (IF last[t].kind = "code" THEN "" ELSE last[t].host)
                        /\ result[t].reason.code = last[t].code
                        /\ result[t].reason.msg = last[t].msg
                        /\ result[t].reason.exc = last[t].exc
                        /\ result[t].reason.text =
                             (IF last[t].kind = "code" THEN "Unexpected SMTP code: "
                              ELSE IF last[t].exc = "SMTPException" THEN "SMTP error with "
                              ELSE "Connection error with ")

\* C9 witness: two hosts, the second could not be connected to; the probe
\* has returned undeliverable.
C9_Witness ==
    \E t \in Tasks :
        /\ op[t] = "verify_smtp"
        /\ pc[t] = "done"
        /\ mx[t] = <<"mx1", "mx2">>
        /\ tried[t] = <<"mx1", "mx2">>
        /\ last[t].kind = "connect_failed"
        /\ result[t].status = "undeliverable"

\* C10 (as claimed): every result returned by process_email or verify_smtp,
\* the empty MX list included, has a status of the closed set and a
\* non-empty reason.
C10_ClosedStatusNonEmptyReason ==
    \A t \in Tasks :
        (pc[t] = "done" /\ op[t] \in {"verify_smtp", "process_email"}) =>
            /\ result[t].status \in Statuses
            /\ result[t].reason.text # ""

\* C5 (as claimed): acquire() never terminates with an error, for every
\* configured rate and burst capacity.
C5_NeverFails == \A t \in Tasks : failed[t] = "none"

\* For a rate and a capacity of at least one: time advances, a task that can
\* step does, and a task waiting for the lock gets it when it is free again
\* and again (asyncio.Lock wakes its waiters in turn).
FairLimiter ==
    /\ SpecLimiter
    /\ WF_vars(Tick)
    /\ \A t \in Tasks : WF_vars(AcquireStep(t)) /\ SF_vars(AcquireLock(t))

\* Under FairLimiter every acquire() that has been called returns, the lock
\* released.
AcquireReturns ==
    \A t \in Tasks : (pc[t] = "lock") ~> (pc[t] = "done" /\ lock # t)

\* ------------------------------------------------------------ process_email
\* The calls of task t so far by name.
Called(t) == {calls[t][i][1] : i \in 1..Len(calls[t])}
\* The calls of task t that failed.
FailedCalls(t) == {calls[t][i][1] : i \in {j \in 1..Len(calls[t]) : calls[t][j][2] = "failed"}}
\* Task t has reached nothing outside the process: no DNS lookup, no
\* acquire(), no SMTP connection.
Untouched(t) ==
    /\ "resolve" \notin Called(t)
    /\ acquired[t] = 0
    /\ tried[t] = <<>>
    /\ pc[t] \notin {"dns", "lock", "refill", "test", "sleep", "debit", "connect",
                     "session", "socket"}
InProcessEmail(t) == op[t] = "process_email" /\ pc[t] # "raised"

\* C11: process_email tries the stages in the order syntax, disposable,
\* role-based and returns at the first that matches: an address failing the
\* syntax check is invalid with 'Invalid syntax'; a well-formed address of a
\* disposable domain is invalid with 'Disposable email', role account or
\* not; a well-formed role account of another domain is caution with
\* 'Role-based email'.  In all three cases the call has returned without a
\* DNS lookup, a limiter acquisition or an SMTP connection.
C11_HeuristicOrder ==
    \A t \in Tasks : InProcessEmail(t) =>
        LET e == email[t] IN
        /\ ~validate_syntax(e) =>
              /\ pc[t] = "done" /\ Untouched(t)
              /\ result[t] = [email |-> e, status |-> "invalid",
                              reason |-> Text("Invalid syntax")]
        /\ (validate_syntax(e) /\ DomainPart(e) \in DISPOSABLE_EMAIL_DOMAINS) =>
              /\ pc[t] = "done" /\ Untouched(t)
              /\ result[t] = [email |-> e, status |-> "invalid",
                              reason |-> Text("Disposable email")]
        /\ (/\ validate_syntax(e)
            /\ DomainPart(e) \notin DISPOSABLE_EMAIL_DOMAINS
            /\ LocalPart(e) \in ROLE_BASED_EMAILS) =>
              /\ pc[t] = "done" /\ Untouched(t)
              /\ result[t] = [email |-> e, status |-> "caution",
                              reason |-> Text("Role-based email")]

\* A role account of a disposable domain has been classified.
C11_Witness ==
    \E t \in Tasks :
        /\ InProcessEmail(t) /\ pc[t] = "done"
        /\ email[t] = "support@MAILINATOR.COM"
        /\ result[t].reason = Text("Disposable email")

\* How the DNS lookup of task t ended, once it has.
Resolved(t) == {calls[t][i][2] : i \in {j \in 1..Len(calls[t]) : calls[t][j][1] = "resolve"}}

\* C12: a DNS lookup that ends otherwise than with a non-empty MX answer
\* (NXDOMAIN, no MX record, timeout, any other error) gives the empty list
\* and raises nothing; on the empty list process_email sets invalid with
\* 'No MX records found', and acquires nothing and connects to nothing.
C12_NoMxIsInvalid ==
    \A t \in Tasks : (op[t] = "process_email" /\ Resolved(t) # {}) =>
        /\ pc[t] \in {"get_item", "update_item", "put_item", "done"}
        /\ "answer" \notin Resolved(t) => mx[t] = <<>>
        /\ mx[t] = <<>> =>
              /\ result[t] = [email |-> email[t], status |-> "invalid",
                              reason |-> Text("No MX records found")]
              /\ acquired[t] = 0
              /\ tried[t] = <<>>

\* A lookup has timed out and the call has returned.
C12_Witness ==
    \E t \in Tasks :
        /\ op[t] = "process_email" /\ pc[t] = "done"
        /\ Resolved(t) = {"Timeout"}
        /\ result[t].status = "invalid"

\* C13: whichever stage gave the final result (syntax, disposable,
\* role-based, MX lookup), process_email has attempted the upsert, get_item
\* first, by the time it returns.
C13_UpsertAttempted ==
    \A t \in Tasks : (op[t] = "process_email" /\ pc[t] = "done") =>
        /\ "get_item" \in Called(t)
        /\ "get_item" \notin FailedCalls(t) =>
              ("update_item" \in Called(t) \/ "put_item" \in Called(t))

\* The result process_email computes from the MX list, before persistence.
Computed(t) ==
    [email |-> email[t],
     status |-> IF mx[t] = <<>> THEN "invalid" ELSE "valid",
     reason |-> Text(IF mx[t] = <<>> THEN "No MX records found"
                                     ELSE "MX records found")]

\* C14: when a persistence call (read, update or insert) fails, the failure
\* stays inside process_email, which returns, and the result it returns is
\* in email, status and reason the one computed before persistence.
C14_StoreFailureAbsorbed ==
    \A t \in Tasks : (op[t] = "process_email" /\ FailedCalls(t) # {}) =>
        /\ pc[t] = "done"
        /\ result[t] = Computed(t)

\* An insert has failed and the call has returned.
C14_Witness ==
    \E t \in Tasks :
        /\ op[t] = "process_email" /\ pc[t] = "done"
        /\ "put_item" \in FailedCalls(t)
        /\ result[t].status = "valid"

\* Task t completes a table write in this step.
Writes(t, name) ==
    /\ pc[t] = name
    /\ calls'[t] = Append(calls[t], <<name, "ok">>)

\* What a step may do to the table: it changes no item but the one a write
\* of that step addresses; an item that exists keeps its other attributes,
\* an update setting its status and reason to the result; an insert puts
\* the whole result.
UpsertStep ==
    /\ \A i \in store : i \notin store' =>
          \E t \in Tasks : /\ email[t] = i.email
                            /\ (Writes(t, "update_item") \/ Writes(t, "put_item"))
    /\ \A i \in store : \E j \in store' : j.email = i.email /\ j.extra = i.extra
    /\ \A t \in Tasks : Writes(t, "update_item") =>
          \E j \in store' : /\ j.email = email[t]
                             /\ j.status = result[t].status
                             /\ j.reason = result[t].reason
    /\ \A t \in Tasks : Writes(t, "put_item") => ItemOf(result[t]) \in store'

\* C15: under every interleaving of verifications, two of one address at a
\* time included, the table holds at most one item per address, and every
\* step is an UpsertStep: an existing item changes in status and reason
\* only, no other item changes, and an insert puts the whole result.
C15_OneRecordPerAddress ==
    /\ [](\A i, j \in store : i.email = j.email => i = j)
    /\ [][UpsertStep]_vars

\* Two verifications of one address have both inserted it, after an item
\* with other attributes was updated.
C15_Witness ==
    /\ \E t1, t2 \in Tasks :
        /\ t1 # t2 /\ email[t1] = email[t2]
        /\ pc[t1] = "done" /\ pc[t2] = "done"
        /\ "put_item" \in Called(t1) \ FailedCalls(t1)
        /\ "put_item" \in Called(t2) \ FailedCalls(t2)
    /\ \E i \in store : i.extra = "note" /\ i.status = "invalid"

\* ------------------------------------------------------------ lambda_handler
AllStr == \A i \in 1..Len(emails) : IsStr(emails[i])
InFlight == {t \in Tasks : pc[t] \in Pending}

\* C16: for N addresses and a batch size B >= 1 the runner makes
\* ceil(N / B) chunks, and its result list has length N with the i-th
\* result being that of the i-th address, whatever the order in which the
\* verifications of a chunk complete.
C16_OrderedResults ==
    /\ \A i \in 1..Len(results) : results[i].email = emails[i]
    /\ rpc \in {"loop", "gather"} =>
          /\ Len(results) = Min(cursor, Len(emails))
          /\ chunks = CeilDiv(Len(results), batch_size)
                        + (IF rpc = "gather" THEN 1 ELSE 0)
    /\ (rpc = "returned" /\ emails # <<>> /\ AllStr) =>
          /\ envelope.message = "Processed emails"
          /\ envelope.results = results
          /\ Len(results) = Len(emails)
          /\ chunks = CeilDiv(Len(emails), batch_size)

\* A run of two chunks has returned; in the second the later address
\* completed before the earlier one.
C16_Witness ==
    /\ rpc = "returned"
    /\ emails = <<"x@mailinator.com", "user@gmail.com",
                  "user@gmail.com", "x@mailinator.com">>
    /\ batch_size = 2
    /\ chunks = 2
    /\ finished = <<2, 1>>
    /\ Len(envelope.results) = 4

\* C17: the chunks run one after the other: while a chunk is gathered the
\* results of all earlier chunks are in, the coroutines in flight are those
\* of this chunk, at most B of them, and outside a chunk none is in flight.
C17_ChunkBound ==
    /\ Cardinality(InFlight) <= batch_size
    /\ rpc = "gather" =>
          /\ Len(results) = cursor
          /\ \A t \in InFlight :
                /\ cursor + t <= Len(emails)
                /\ t <= batch_size
                /\ email[t] = emails[cursor + t]
    /\ rpc # "gather" => InFlight = {}

\* The second chunk is in flight after a first chunk of two.
C17_Witness ==
    /\ rpc = "gather"
    /\ batch_size = 2
    /\ chunks = 2
    /\ InFlight # {}
    /\ Len(results) = 2

\* C18: when the verification of an address ends in an error, the other
\* verifications of its chunk run to completion, the later chunks are
\* processed, and the results of the other addresses are returned.
C18_FailureIsolated ==
    rpc = "returned" =>
        /\ \A t \in Tasks : pc[t] # "cancelled"
        /\ emails # <<>> => chunks = CeilDiv(Len(emails), batch_size)
        /\ \A i \in 1..Len(emails) : IsStr(emails[i]) =>
              \E k \in 1..Len(envelope.results) :
                  envelope.results[k].email = emails[i]

\* ---------------------------------------------------------------- smtp_client
\* The status verify_smtp gives for an RCPT code.
StatusOf(c) ==
    IF c = 250 THEN "valid"
    ELSE IF c \in PermanentCodes THEN "invalid"
    ELSE IF c \in TemporaryCodes THEN "retry_later"
    ELSE "undeliverable"

\* C19: every host attempt made through smtp_client ends with one quit()
\* for that host, attempted before the next host is tried or the result
\* returned, whether the connect failed, the session raised or RCPT gave a
\* terminal or another code; when that quit() raises, nothing leaves the
\* method and the attempt is classified as by its own outcome.
C19_QuitOncePerHost ==
    \A t \in Tasks : op[t] \in {"verify_smtp", "is_catch_all"} =>
        /\ quits[t] = Len(tried[t]) - (IF pc[t] = "session" THEN 1 ELSE 0)
        /\ pc[t] # "raised"
        /\ last[t].quit = "raised" =>
              /\ pc[t] \in {"loop", "done"}
              /\ (op[t] = "verify_smtp" /\ last[t].kind = "code") =>
                    /\ result[t].status = StatusOf(last[t].code)
                    /\ last[t].code \in TerminalCodes =>
                          pc[t] = "done" /\ idx[t] = last[t].at
                    /\ last[t].code \notin TerminalCodes => idx[t] = last[t].at + 1
              /\ (op[t] = "verify_smtp" /\ last[t].kind # "code") =>
                    /\ result[t].status = "undeliverable"
                    /\ result[t].reason.host = last[t].host
                    /\ idx[t] = last[t].at + 1
              /\ op[t] = "is_catch_all" =>
                    IF last[t].kind = "code" /\ last[t].code = 250
                    THEN pc[t] = "done" /\ result[t].status = "True"
                    ELSE result[t].status # "True" /\ idx[t] = last[t].at + 1

\* The second host answered 250 and its quit() raised; verify_smtp has
\* returned valid after two quits.
C19_Witness ==
    \E t \in Tasks :
        /\ op[t] = "verify_smtp" /\ pc[t] = "done"
        /\ last[t].quit = "raised"
        /\ last[t].code = 250
        /\ quits[t] = 2
        /\ result[t].status = "valid"

\* ----------------------------------------------------------------- admission
\* C20: for capacity C and rate R, the acquire() calls completed by the time
\* t has elapsed since construction are at most C + R * t, under every
\* interleaving of concurrent callers, sleeps inside acquire() included
\* (in units: R is rate / Scale tokens per tick).
C20_AdmissionBound ==
    observing => total * Scale <= capacity * Scale + rate * clock

\* A call that slept inside acquire() has completed and the bound is met
\* with equality, after the burst was spent.
C20_Witness ==
    /\ observing
    /\ clock > 0
    /\ total > capacity
    /\ total * Scale = capacity * Scale + rate * clock
    /\ \E t \in Tasks : slept[t] /\ pc[t] = "done"

====
